---- MODULE Spec2Model ----
(***************************************************************************)
(* Model of the round-robin reverse-proxy load balancer of src/main.go:    *)
(* the backends and their HEAD probe (simpleServer), the selection loop    *)
(* (LoadBalancer.getNextAvailableServer), the request path                 *)
(* (LoadBalancer.serveProxy) run by one goroutine per inbound request, and *)
(* the process lifecycle of main (listener goroutine, interrupt signal,    *)
(* srv.Shutdown under a 5 second context).                                 *)
(***************************************************************************)
EXTENDS Integers, Sequences, FiniteSets, TLC

\* ---------------------------------------------------------------- bounds
MaxServers == 3       \* len(lb.servers) ranges over 1..MaxServers
MaxHandlers == 2      \* request-handler goroutines that can run at once
MaxCalls == 4         \* inbound requests accepted in one run
MaxCount == 5         \* cap on roundRobinCount while the loop spins
MaxFlips == 1         \* backend state changes in one run
ConcServers == 2      \* len(lb.servers) ranges over 1..ConcServers when handlers overlap
ConcCalls == 2        \* inbound requests accepted in one run with overlapping handlers
FlipServers == 3      \* len(lb.servers) ranges over 1..FlipServers when liveness changes
FlipCalls == 2        \* serveProxy calls in one run with changing liveness
ConcCount == 1        \* cap on roundRobinCount with overlapping handlers

\* ------------------------------------------------------ program constants
BadStatus == 400      \* the threshold of IsAlive

Handlers == 1 .. MaxHandlers

\* ------------------------------------------------ backends and the probe
\* What a backend currently answers to a request: a transport error (err),
\* or a response with a status code.
NoErr == "none"

Up == [err |-> NoErr, code |-> 200]

Failing == [err |-> NoErr, code |-> 500]

Refused == [err |-> "refused", code |-> 0]

BackendStates == {Up, Failing, Refused}

\* http.Head(s.address): (resp, err). On a transport error resp is nil; when
\* the redirect policy gives up, the last response comes with a non-nil err.
HttpHead(b) ==
    [resp |-> [isNil |-> (b.err # NoErr /\ b.err # "redirect"), StatusCode |-> b.code],
     err  |-> b.err]

\* simpleServer.IsAlive with an exclusive threshold.
IsAliveAbove(b) ==
    LET r == HttpHead(b) IN
    IF r.err # NoErr THEN "false"
    ELSE IF r.resp.isNil THEN "panic"
    ELSE IF r.resp.StatusCode > BadStatus THEN "false"
    ELSE "true"

\* simpleServer.IsAlive: `err != nil || resp.Status >= 400` evaluated left to
\* right with short circuit; reading a field of a nil resp would panic.
IsAliveResult(b) ==
    LET r == HttpHead(b) IN
    IF r.err # NoErr THEN "false"
    ELSE IF r.resp.isNil THEN "panic"
    ELSE IF r.resp.StatusCode >= BadStatus THEN "false"
    ELSE "true"

IsAlive(b) == IsAliveResult(b) = "true"

\* simpleServer.Serve: the reverse proxy relays the backend's response; on a
\* transport error its default error handler answers 502 Bad Gateway.
Serve(b) == IF b.err # NoErr THEN 502 ELSE b.code

\* Go's % : the remainder of truncated division, its sign follows a.
GoRem(a, m) == IF a >= 0 THEN a % m ELSE -((-a) % m)

VARIABLES
    backend,          \* [0..n-1 -> BackendStates]: what servers[i]'s host answers now
    roundRobinCount,  \* lb.roundRobinCount
    pc,               \* per handler goroutine: its position in serveProxy
    server,           \* per handler: local `server` of getNextAvailableServer (an index)
    tmp,              \* per handler: the value read by a ++ or -- in progress (0 otherwise)
    targetServer,     \* per handler: local `targetServer` of serveProxy (an index)
    response,         \* per handler: [from, status] written to the client, or NoResponse
    entry,            \* per handler: roundRobinCount as read at line 74 of this call
    probed,           \* per handler: indices probed by getNextAvailableServer in this call
    heads,            \* per handler: HEAD requests sent during this serveProxy call
    forwards,         \* per handler: Serve calls during this serveProxy call
    reqId,            \* per handler: number of the request being handled
    returned,         \* indices returned by getNextAvailableServer, in order of return
    calls,            \* requests accepted so far
    flips,            \* backend state changes so far
    mainPc,           \* position of the main goroutine
    listener,         \* "notStarted", "listening", "failed" or "closed"
    stop,             \* number of signals buffered in the channel `stop` (capacity 1)
    ctxDone,          \* whether the context of line 137 has expired
    exitStatus,       \* exit status of the process, or -1 while it runs
    atSignal,         \* requests in flight when the interrupt was delivered
    probe,            \* one IsAlive call on its own: [outcome, result]
    boot,             \* main lines 99-103: [addrs: does url.Parse accept address i, built: servers made]
    mark              \* per handler: [req, at]: its request and probe count at the last backend change

hvars == <<pc, server, tmp, targetServer, response, entry, probed, heads, forwards, reqId>>

lvars == <<mainPc, listener, stop, ctxDone, exitStatus, atSignal>>

others == <<lvars, probe, boot, mark>>

vars == <<backend, roundRobinCount, hvars, returned, calls, flips, others>>

NoServer == -1

NoResponse == [from |-> NoServer, status |-> 0]

n == Cardinality(DOMAIN backend)

Running == exitStatus = -1

InFlight(h) == pc[h] \notin {"idle", "done", "panicked"}

Idle == \A h \in Handlers : ~InFlight(h)

\* The LoadBalancer value of NewLoadBalancer(port, servers) over a backend list
\* of B, and a process in which nothing has happened yet.
InitCommon(B) ==
    /\ backend \in B
    /\ roundRobinCount = 0
    /\ pc = [h \in Handlers |-> "idle"]
    /\ server = [h \in Handlers |-> NoServer]
    /\ tmp = [h \in Handlers |-> 0]
    /\ targetServer = [h \in Handlers |-> NoServer]
    /\ response = [h \in Handlers |-> NoResponse]
    /\ entry = [h \in Handlers |-> 0]
    /\ probed = [h \in Handlers |-> <<>>]
    /\ heads = [h \in Handlers |-> 0]
    /\ forwards = [h \in Handlers |-> 0]
    /\ reqId = [h \in Handlers |-> 0]
    /\ returned = <<>>
    /\ calls = 0
    /\ flips = 0
    /\ mark = [h \in Handlers |-> [req |-> 0, at |-> 0]]
    /\ listener = "notStarted"
    /\ stop = 0
    /\ ctxDone = FALSE
    /\ exitStatus = -1
    /\ atSignal = {}

\* NewLoadBalancer(port, servers) with roundRobinCount 0, every address
\* parsed, before main's listener goroutine has started; no request has arrived.
InitWith(B) ==
    /\ InitCommon(B)
    /\ mainPc = "waiting"
    /\ boot = [addrs |-> [i \in 1 .. n |-> TRUE], built |-> n]

BackendLists(S, max) == UNION {[0 .. k - 1 -> S] : k \in 1 .. max}

\* ------------------------------------------------------- request handlers
\* handleRedirect -> lb.serveProxy(rw, req): a handler goroutine starts on a
\* request; line 85 calls getNextAvailableServer.
Begin(h) ==
    /\ Running
    /\ ~InFlight(h)
    /\ calls < MaxCalls
    /\ calls' = calls + 1
    /\ reqId' = [reqId EXCEPT ![h] = calls + 1]
    /\ pc' = [pc EXCEPT ![h] = "L74"]
    /\ server' = [server EXCEPT ![h] = NoServer]
    /\ targetServer' = [targetServer EXCEPT ![h] = NoServer]
    /\ response' = [response EXCEPT ![h] = NoResponse]
    /\ probed' = [probed EXCEPT ![h] = <<>>]
    /\ heads' = [heads EXCEPT ![h] = 0]
    /\ forwards' = [forwards EXCEPT ![h] = 0]
    /\ UNCHANGED <<backend, roundRobinCount, tmp, entry, returned, flips, others>>

\* lb.servers[lb.roundRobinCount] -- the index taken without the remainder.
IndexNoRem(c) == IF c \in 0 .. n - 1 THEN c ELSE NoServer

\* lb.servers[lb.roundRobinCount%len(lb.servers)]: the index read, or
\* NoServer when it is out of range (the runtime panics).
Index(c) == LET i == GoRem(c, n) IN IF i \in 0 .. n - 1 THEN i ELSE NoServer

\* line 74: server := lb.servers[lb.roundRobinCount%len(lb.servers)]
L74(h) ==
    /\ Running
    /\ pc[h] = "L74"
    /\ entry' = [entry EXCEPT ![h] = roundRobinCount]
    /\ IF Index(roundRobinCount) = NoServer
       THEN /\ pc' = [pc EXCEPT ![h] = "panicked"]
            /\ UNCHANGED server
       ELSE /\ pc' = [pc EXCEPT ![h] = "L75"]
            /\ server' = [server EXCEPT ![h] = Index(roundRobinCount)]
    /\ UNCHANGED <<backend, roundRobinCount, tmp, targetServer, response, probed,
                   heads, forwards, reqId, returned, calls, flips, others>>

\* line 75: for !server.IsAlive() -- one HEAD probe of the candidate.
L75(h) ==
    /\ Running
    /\ pc[h] = "L75"
    /\ probed' = [probed EXCEPT ![h] = Append(@, server[h])]
    /\ heads' = [heads EXCEPT ![h] = @ + 1]
    /\ pc' = [pc EXCEPT ![h] = IF IsAlive(backend[server[h]]) THEN "L80" ELSE "L76"]
    /\ UNCHANGED <<backend, roundRobinCount, server, tmp, targetServer, response,
                   entry, forwards, reqId, returned, calls, flips, others>>

\* line 76: lb.roundRobinCount++ -- the read of the unsynchronised counter.
L76(h) ==
    /\ Running
    /\ pc[h] = "L76"
    /\ roundRobinCount < MaxCount
    /\ tmp' = [tmp EXCEPT ![h] = roundRobinCount]
    /\ pc' = [pc EXCEPT ![h] = "L76w"]
    /\ UNCHANGED <<backend, roundRobinCount, server, targetServer, response, entry,
                   probed, heads, forwards, reqId, returned, calls, flips, others>>

\* line 76 without its effect: the counter is written back unchanged.
L76wNoIncrement(h) ==
    /\ Running
    /\ pc[h] = "L76w"
    /\ roundRobinCount' = tmp[h]
    /\ tmp' = [tmp EXCEPT ![h] = 0]
    /\ pc' = [pc EXCEPT ![h] = "L77"]
    /\ UNCHANGED <<backend, server, targetServer, response, entry, probed,
                   heads, forwards, reqId, returned, calls, flips, others>>

\* line 76: lb.roundRobinCount++ -- the write.
L76w(h) ==
    /\ Running
    /\ pc[h] = "L76w"
    /\ roundRobinCount' = tmp[h] + 1
    /\ tmp' = [tmp EXCEPT ![h] = 0]
    /\ pc' = [pc EXCEPT ![h] = "L77"]
    /\ UNCHANGED <<backend, server, targetServer, response, entry, probed,
                   heads, forwards, reqId, returned, calls, flips, others>>

\* line 77: server = lb.servers[lb.roundRobinCount%len(lb.servers)]
L77(h) ==
    /\ Running
    /\ pc[h] = "L77"
    /\ IF Index(roundRobinCount) = NoServer
       THEN /\ pc' = [pc EXCEPT ![h] = "panicked"]
            /\ UNCHANGED server
       ELSE /\ pc' = [pc EXCEPT ![h] = "L75"]
            /\ server' = [server EXCEPT ![h] = Index(roundRobinCount)]
    /\ UNCHANGED <<backend, roundRobinCount, tmp, targetServer, response, entry,
                   probed, heads, forwards, reqId, returned, calls, flips, others>>

\* line 80: lb.roundRobinCount-- -- the read.
L80(h) ==
    /\ Running
    /\ pc[h] = "L80"
    /\ tmp' = [tmp EXCEPT ![h] = roundRobinCount]
    /\ pc' = [pc EXCEPT ![h] = "L80w"]
    /\ UNCHANGED <<backend, roundRobinCount, server, targetServer, response, entry,
                   probed, heads, forwards, reqId, returned, calls, flips, others>>

\* line 80: lb.roundRobinCount-- -- the write; line 81: return server, which
\* line 85 assigns to targetServer.
L80w(h) ==
    /\ Running
    /\ pc[h] = "L80w"
    /\ roundRobinCount' = tmp[h] - 1
    /\ tmp' = [tmp EXCEPT ![h] = 0]
    /\ targetServer' = [targetServer EXCEPT ![h] = server[h]]
    /\ returned' = Append(returned, server[h])
    /\ pc' = [pc EXCEPT ![h] = "L86"]
    /\ UNCHANGED <<backend, server, response, entry, probed, heads, forwards,
                   reqId, calls, flips, others>>

\* line 86: fmt.Printf(..., targetServer.IsAlive()) -- a second HEAD probe of
\* the chosen backend, whose result is only printed.
L86(h) ==
    /\ Running
    /\ pc[h] = "L86"
    /\ heads' = [heads EXCEPT ![h] = @ + 1]
    /\ pc' = [pc EXCEPT ![h] = "L87"]
    /\ UNCHANGED <<backend, roundRobinCount, server, tmp, targetServer, response,
                   entry, probed, forwards, reqId, returned, calls, flips, others>>

\* line 87 forwarding to the head of the list instead of the chosen backend.
ForwardTargetFirst(h) == 0

\* line 87: the backend the request is forwarded to.
ForwardTarget(h) == targetServer[h]

\* serveProxy selecting again when the forward answers with a failure.
L87Retry(h) ==
    /\ Running
    /\ pc[h] = "L87"
    /\ forwards' = [forwards EXCEPT ![h] = @ + 1]
    /\ IF Serve(backend[ForwardTarget(h)]) >= BadStatus /\ forwards[h] = 0
       THEN /\ pc' = [pc EXCEPT ![h] = "L74"]
            /\ UNCHANGED response
       ELSE /\ pc' = [pc EXCEPT ![h] = "done"]
            /\ response' = [response EXCEPT ![h] =
                   [from |-> ForwardTarget(h), status |-> Serve(backend[ForwardTarget(h)])]]
    /\ UNCHANGED <<backend, roundRobinCount, server, tmp, targetServer, entry,
                   probed, heads, reqId, returned, calls, flips, others>>

\* line 87: targetServer.Serve(rw, req); the handler returns and the response
\* goes to the client.
L87(h) ==
    /\ Running
    /\ pc[h] = "L87"
    /\ forwards' = [forwards EXCEPT ![h] = @ + 1]
    /\ response' = [response EXCEPT ![h] =
           [from |-> ForwardTarget(h), status |-> Serve(backend[ForwardTarget(h)])]]
    /\ pc' = [pc EXCEPT ![h] = "done"]
    /\ UNCHANGED <<backend, roundRobinCount, server, tmp, targetServer, entry,
                   probed, heads, reqId, returned, calls, flips, others>>

Step(h) ==
    \/ L74(h)
    \/ L75(h)
    \/ L76(h)
    \/ L76w(h)
    \/ L77(h)
    \/ L80(h)
    \/ L80w(h)
    \/ L86(h)
    \/ L87(h)

\* ------------------------------------------------- backends going up/down
\* The host behind servers[i] changes what it answers.
Flip(i, b) ==
    /\ Running
    /\ flips < MaxFlips
    /\ b # backend[i]
    /\ backend' = [backend EXCEPT ![i] = b]
    /\ flips' = flips + 1
    /\ UNCHANGED <<roundRobinCount, hvars, returned, calls, others>>

\* ------------------------------------------------------ process lifecycle
\* The initial state is main after line 132: the balancer is built, the
\* listener goroutine of lines 123-128 is spawned and signal.Notify has
\* registered the buffered channel `stop`.

\* line 125: srv.ListenAndServe() binds the port and starts accepting.
ListenStart ==
    /\ Running
    /\ mainPc # "L99"
    /\ listener = "notStarted"
    /\ listener' = "listening"
    /\ UNCHANGED <<backend, roundRobinCount, hvars, returned, calls, flips,
                   mainPc, stop, ctxDone, exitStatus, atSignal, probe, boot, mark>>

\* lines 125-126: ListenAndServe fails (not ErrServerClosed); handleErr
\* prints the error and calls os.Exit(1).
ListenFail ==
    /\ Running
    /\ mainPc # "L99"
    /\ listener = "notStarted"
    /\ listener' = "failed"
    /\ exitStatus' = 1
    /\ mainPc' = "exited"
    /\ UNCHANGED <<backend, roundRobinCount, hvars, returned, calls, flips,
                   stop, ctxDone, atSignal, probe, boot, mark>>

\* The server accepts a connection and runs loggedMux -> handleRedirect on
\* its request in a new goroutine (named by the lowest free handler number).
Accept(h) ==
    /\ listener = "listening"
    /\ calls < ConcCalls
    /\ \A g \in 1 .. h - 1 : InFlight(g)
    /\ Begin(h)

\* The OS delivers an interrupt; signal.Notify's non-blocking send puts it in
\* `stop` if the buffer has room (otherwise it is dropped). Interrupts that
\* arrive after main has taken the first one are never read and change nothing.
\* atSignal records the requests in flight at that moment.
Interrupt ==
    /\ Running
    /\ mainPc = "waiting"
    /\ stop = 0
    /\ stop' = 1
    /\ atSignal' = {reqId[h] : h \in {g \in Handlers : InFlight(g)}}
    /\ UNCHANGED <<backend, roundRobinCount, hvars, returned, calls, flips,
                   mainPc, listener, ctxDone, exitStatus, probe, boot, mark>>

\* lines 134-140: <-stop returns, "Shutting down the server..." is printed,
\* the 5 second context starts and srv.Shutdown(ctx) closes the listener (a
\* ListenAndServe not yet started will return ErrServerClosed); Shutdown then
\* waits for the connections that are serving a request.
MainShutdown ==
    /\ Running
    /\ mainPc = "waiting"
    /\ stop = 1
    /\ stop' = 0
    /\ mainPc' = "draining"
    /\ listener' = "closed"
    /\ ctxDone' = FALSE
    /\ UNCHANGED <<backend, roundRobinCount, hvars, returned, calls, flips,
                   exitStatus, atSignal, probe, boot, mark>>

\* The 5 seconds of context.WithTimeout pass while Shutdown waits: ctx.Done()
\* is closed.
CtxExpire ==
    /\ Running
    /\ mainPc = "draining"
    /\ ~ctxDone
    /\ ctxDone' = TRUE
    /\ UNCHANGED <<backend, roundRobinCount, hvars, returned, calls, flips,
                   mainPc, listener, stop, exitStatus, atSignal, probe, boot, mark>>

\* srv.Shutdown replaced by srv.Close: it returns at once, whatever is running.
MainDrainedNoWait ==
    /\ Running
    /\ mainPc = "draining"
    /\ mainPc' = "exited"
    /\ exitStatus' = 0
    /\ UNCHANGED <<backend, roundRobinCount, hvars, returned, calls, flips,
                   listener, stop, ctxDone, atSignal, probe, boot, mark>>

\* line 140 returns nil once no connection is serving a request; line 143
\* prints "Server gracefully stopped." and main returns: exit status 0.
MainDrained ==
    /\ Running
    /\ mainPc = "draining"
    /\ Idle
    /\ mainPc' = "exited"
    /\ exitStatus' = 0
    /\ UNCHANGED <<backend, roundRobinCount, hvars, returned, calls, flips,
                   listener, stop, ctxDone, atSignal, probe, boot, mark>>

\* srv.Shutdown(context.Background()): no deadline ever ends the wait.
MainTimeoutNever ==
    /\ Running
    /\ mainPc = "draining"
    /\ FALSE
    /\ UNCHANGED vars

\* main ending in os.Exit(1) when Shutdown reports an error.
MainTimeoutExitsOne ==
    /\ Running
    /\ mainPc = "draining"
    /\ ctxDone
    /\ mainPc' = "exited"
    /\ exitStatus' = 1
    /\ UNCHANGED <<backend, roundRobinCount, hvars, returned, calls, flips,
                   listener, stop, ctxDone, atSignal, probe, boot, mark>>

\* line 140 returns ctx.Err() when the context expires; line 141 prints
\* "Shutdown error: ..." and main returns: exit status 0, the handlers still
\* running end with the process.
MainTimeout ==
    /\ Running
    /\ mainPc = "draining"
    /\ ctxDone
    /\ mainPc' = "exited"
    /\ exitStatus' = 0
    /\ UNCHANGED <<backend, roundRobinCount, hvars, returned, calls, flips,
                   listener, stop, ctxDone, atSignal, probe, boot, mark>>

NoProbe == [outcome |-> Up, result |-> "pending"]

Init == InitWith(BackendLists({Up, Failing}, ConcServers)) /\ probe = NoProbe

\* A step of a handler, the spinning loop cut off at ConcCount.
StepConc(h) == Step(h) /\ roundRobinCount' <= ConcCount

Next ==
    \/ \E h \in Handlers : Accept(h) \/ StepConc(h)
    \/ \E i \in DOMAIN backend : \E b \in BackendStates : Flip(i, b)
    \/ ListenStart
    \/ ListenFail
    \/ Interrupt
    \/ MainShutdown
    \/ CtxExpire
    \/ MainDrained
    \/ MainTimeout

Spec == Init /\ [][Next]_vars

\* ------------------------------------------------------------- startup
\* newSimpleServer that ignores the error of url.Parse.
NewSimpleServerNoCheck ==
    /\ Running
    /\ mainPc = "L99"
    /\ boot.built < Len(boot.addrs)
    /\ boot' = [boot EXCEPT !.built = @ + 1]
    /\ UNCHANGED <<backend, roundRobinCount, hvars, returned, calls, flips,
                   lvars, probe, mark>>

\* lines 99-103, one element: newSimpleServer(addr) parses the address;
\* handleErr prints a parse error and calls os.Exit(1).
NewSimpleServer ==
    /\ Running
    /\ mainPc = "L99"
    /\ boot.built < Len(boot.addrs)
    /\ IF boot.addrs[boot.built + 1]
       THEN /\ boot' = [boot EXCEPT !.built = @ + 1]
            /\ UNCHANGED <<mainPc, exitStatus>>
       ELSE /\ exitStatus' = 1
            /\ mainPc' = "exited"
            /\ UNCHANGED boot
    /\ UNCHANGED <<backend, roundRobinCount, hvars, returned, calls, flips,
                   listener, stop, ctxDone, atSignal, probe, mark>>

\* lines 105-132: NewLoadBalancer, the mux and the server are built, the
\* listener goroutine is spawned and signal.Notify registers `stop`.
MainWire ==
    /\ Running
    /\ mainPc = "L99"
    /\ boot.built = Len(boot.addrs)
    /\ mainPc' = "waiting"
    /\ UNCHANGED <<backend, roundRobinCount, hvars, returned, calls, flips,
                   listener, stop, ctxDone, exitStatus, atSignal, probe, boot, mark>>

\* main from its first line, over any backend list of 1..MaxServers
\* addresses each of which url.Parse accepts or rejects.
InitBoot ==
    /\ InitCommon(BackendLists(BackendStates, MaxServers))
    /\ mainPc = "L99"
    /\ boot \in {[addrs |-> a, built |-> 0] : a \in [1 .. n -> BOOLEAN]}
    /\ probe = NoProbe

\* The server accepts a request when no other is being handled.
AcceptOne(h) == listener = "listening" /\ Idle /\ Begin(h)

NextBoot ==
    \/ NewSimpleServer
    \/ MainWire
    \/ ListenStart
    \/ ListenFail
    \/ \E h \in Handlers : AcceptOne(h) \/ Step(h)
    \/ Interrupt
    \/ MainShutdown
    \/ CtxExpire
    \/ MainDrained
    \/ MainTimeout

SpecBoot == InitBoot /\ [][NextBoot]_vars

\* ------------------------------------------------ fairness of the lifecycle
\* The main goroutine is scheduled whenever it can run and the context's
\* timer fires; nothing is assumed of the handlers, which may block forever
\* in a probe or a forward, nor of when an interrupt arrives.
SpecFair ==
    /\ Spec
    /\ WF_vars(MainShutdown)
    /\ WF_vars(CtxExpire)
    /\ WF_vars(MainDrained)
    /\ WF_vars(MainTimeout)

\* ------------------------------------------------- IsAlive as a function
\* Every outcome http.Head can have: a response with any status code, a
\* transport error without a response, or a redirect-policy error that comes
\* with the last 3xx response.
StatusCodes == 100 .. 599

TransportErrors == {"timeout", "refused", "dns"}

ProbeOutcomes ==
    {[err |-> NoErr, code |-> c] : c \in StatusCodes}
        \cup {[err |-> e, code |-> 0] : e \in TransportErrors}
        \cup {[err |-> "redirect", code |-> c] : c \in 300 .. 399}

InitIsAlive ==
    /\ InitWith({[i \in {0} |-> Up]})
    /\ probe \in {[outcome |-> o, result |-> "pending"] : o \in ProbeOutcomes}

\* s.IsAlive() is called on a backend whose HEAD request has outcome
\* probe.outcome.
CallIsAlive ==
    /\ probe.result = "pending"
    /\ probe' = [probe EXCEPT !.result = IsAliveResult(probe.outcome)]
    /\ UNCHANGED <<backend, roundRobinCount, hvars, returned, calls, flips, lvars,
                   boot, mark>>

SpecIsAlive == InitIsAlive /\ [][CallIsAlive]_vars

\* ------------------------------------------- single caller, fixed liveness
\* One serveProxy call at a time on a LoadBalancer built over any backend
\* list of 1..MaxServers backends whose states do not change.
InitSeq == InitWith(BackendLists(BackendStates, MaxServers)) /\ probe = NoProbe

BeginSeq(h) == Idle /\ Begin(h)

NextSeq == \E h \in Handlers : BeginSeq(h) \/ Step(h)

SpecSeq == InitSeq /\ [][NextSeq]_vars

\* --------------------------------------- single caller, changing liveness
\* The host behind servers[i] changes what it answers while one caller at a
\* time uses the balancer; mark remembers, for every handler, the request it
\* was on and the probes that request had made when the change happened.
FlipSeq(i, b) ==
    /\ Running
    /\ flips < MaxFlips
    /\ b # backend[i]
    /\ backend' = [backend EXCEPT ![i] = b]
    /\ flips' = flips + 1
    /\ mark' = [h \in Handlers |-> [req |-> reqId[h], at |-> Len(probed[h])]]
    /\ UNCHANGED <<roundRobinCount, hvars, returned, calls, lvars, probe, boot>>

\* One serveProxy call at a time, in the first handler goroutine free.
BeginFlip(h) ==
    /\ Idle
    /\ h = 1
    /\ calls < FlipCalls
    /\ Begin(h)

InitFlip == InitWith(BackendLists(BackendStates, FlipServers)) /\ probe = NoProbe

NextFlip ==
    \/ \E h \in Handlers : BeginFlip(h) \/ Step(h)
    \/ \E i \in DOMAIN backend : \E b \in BackendStates : FlipSeq(i, b)

SpecFlip == InitFlip /\ [][NextFlip]_vars

\* A handler goroutine that can take a step is scheduled: probes and forwards
\* return.
SpecFlipFair == SpecFlip /\ \A h \in Handlers : WF_vars(Step(h))

\* --------------------------------------------------------------- helpers
AnyAlive == \E i \in DOMAIN backend : IsAlive(backend[i])

AllAlive == \A i \in DOMAIN backend : IsAlive(backend[i])

AllDown == \A i \in DOMAIN backend : ~IsAlive(backend[i])

OnlyAlive(k) == \A i \in DOMAIN backend : IsAlive(backend[i]) <=> i = k

NoPanic == \A h \in Handlers : pc[h] # "panicked"

HasReturned(h) == targetServer[h] # NoServer

\* The j-th backend (j = 0, 1, ...) of the circular scan that starts at cursor c.
Circular(c, j) == (c + j) % n

\* The first alive backend of the circular scan that starts at cursor c.
FirstAlive(c) ==
    LET j == CHOOSE j \in 0 .. n - 1 :
                 /\ IsAlive(backend[Circular(c, j)])
                 /\ \A i \in 0 .. j - 1 : ~IsAlive(backend[Circular(c, i)])
    IN Circular(c, j)

\* ---------------------------------------------------------------- claims

\* C1: with at least one backend alive (fixed liveness, single caller), every
\* call of getNextAvailableServer, after any number of earlier calls, ends
\* by returning a backend (it does not fault) and the backend returned is one
\* whose probe in that call was true.
C1_NextReturnsAlive ==
    AnyAlive =>
        \A h \in Handlers :
            /\ pc[h] # "panicked"
            /\ HasReturned(h) => IsAlive(backend[targetServer[h]])

\* C2: with all n backends alive and one caller, the calls on a fresh
\* balancer all return, and the i-th call returns index (i-1) mod n: 0, 1,
\* ..., n-1 and then 0 again.
C2_RoundRobinOrder ==
    AllAlive =>
        /\ NoPanic
        /\ \A i \in 1 .. Len(returned) : returned[i] = (i - 1) % n

\* C3: if the backend at index k is the only alive one, every one of the
\* repeated calls returns index k.
C3_OnlyAliveReturned ==
    \A k \in DOMAIN backend :
        OnlyAlive(k) =>
            /\ NoPanic
            /\ \A i \in 1 .. Len(returned) : returned[i] = k

\* C4: a call entered with cursor c returns the first alive backend of the
\* circular sequence servers[c mod n], servers[(c+1) mod n], ..., having
\* probed exactly the backends of that sequence up to the one it returns.
C4_FirstAliveInOrder ==
    AnyAlive =>
        \A h \in Handlers :
            /\ pc[h] # "panicked"
            /\ HasReturned(h) =>
                  /\ targetServer[h] = FirstAlive(entry[h])
                  /\ \A j \in 1 .. Len(probed[h]) :
                         probed[h][j] = Circular(entry[h], j - 1)
                  /\ probed[h][Len(probed[h])] = targetServer[h]

C7_GracefulShutdown ==
    /\ [][mainPc # "waiting" =>
             /\ calls' = calls
             /\ \A h \in Handlers : InFlight(h)' => InFlight(h)]_vars
    /\ [](mainPc = "exited" /\ exitStatus = 0 =>
             \A h \in Handlers :
                 /\ InFlight(h) => ctxDone
                 /\ pc[h] = "done" => response[h] # NoResponse)

C7_Witness ==
    /\ mainPc = "exited"
    /\ exitStatus = 0
    /\ ~ctxDone
    /\ \E h \in Handlers :
           /\ reqId[h] \in atSignal
           /\ pc[h] = "done"
           /\ response[h].status = 200

\* C8: after the interrupt is delivered the process always eventually exits,
\* at the latest when the 5 second context expires, also when a Handle call
\* never finishes; the calls still running then take no further step.
C8_BoundedDrain ==
    /\ (stop = 1) ~> (mainPc = "exited")
    /\ [][mainPc = "exited" => UNCHANGED <<hvars, roundRobinCount, returned>>]_vars

C8_Witness ==
    /\ mainPc = "exited"
    /\ ctxDone
    /\ AllDown
    /\ \E h \in Handlers :
           /\ reqId[h] \in atSignal
           /\ pc[h] \in {"L75", "L76", "L76w", "L77"}
    /\ \E h \in Handlers : pc[h] \in {"L86", "L87"}

\* C6: with a single alive backend every request is forwarded to it and
\* answered with the status it produced; in general the response of a request
\* comes from exactly the backend getNextAvailableServer returned for it.
C6_ResponseOfChosenBackend ==
    \A h \in Handlers :
        /\ (n = 1 /\ IsAlive(backend[0])) =>
              /\ pc[h] # "panicked"
              /\ pc[h] = "done" =>
                    response[h] = [from |-> 0, status |-> backend[0].code]
        /\ pc[h] = "done" =>
              /\ HasReturned(h)
              /\ targetServer[h] = returned[Len(returned)]
              /\ response[h].from = targetServer[h]
              /\ backend[targetServer[h]].err = NoErr =>
                     response[h].status = backend[targetServer[h]].code

C6_Witness ==
    /\ n = 1
    /\ IsAlive(backend[0])
    /\ calls = MaxCalls
    /\ \E h \in Handlers : pc[h] = "done" /\ response[h] = [from |-> 0, status |-> 200]

\* C9: while every backend is down, a call neither returns nor faults nor
\* answers: it probes the backends one after another in circular list order,
\* the cursor going up by one per failed probe, and it always has a next step.
C9_AllDownSpins ==
    AllDown =>
        \A h \in Handlers :
            /\ pc[h] \in {"idle", "L74", "L75", "L76", "L76w", "L77"}
            /\ ~HasReturned(h)
            /\ response[h] = NoResponse
            /\ pc[h] \in {"L75", "L76", "L76w", "L77"} =>
                  /\ \A j \in 1 .. Len(probed[h]) :
                         probed[h][j] = Circular(entry[h], j - 1)
                  /\ roundRobinCount - entry[h] =
                         IF pc[h] \in {"L76", "L76w"} THEN Len(probed[h]) - 1
                         ELSE Len(probed[h])
            /\ (InFlight(h) /\ (pc[h] # "L76" \/ roundRobinCount < MaxCount)) =>
                  ENABLED Step(h)

C9_Witness ==
    /\ AllDown
    /\ n >= 2
    /\ \E h \in Handlers : pc[h] = "L76" /\ Len(probed[h]) > n

\* C10: a serveProxy call sends one HEAD probe per candidate scanned by
\* getNextAvailableServer and no other before it forwards once; with the
\* first candidate alive that is one probe and one forward.
C10_OneProbeOneForward ==
    \A h \in Handlers :
        pc[h] = "done" =>
            /\ forwards[h] = 1
            /\ heads[h] = Len(probed[h])
            /\ Len(probed[h]) = 1 => heads[h] = 1

\* The handler is inside the scan of getNextAvailableServer.
Scanning(h) == pc[h] \in {"L75", "L76", "L76w", "L77"}

\* C12: for a single caller, the call that follows a call which returned
\* index i starts its scan at index (i+1) mod n.
C12_ResumeAfterReturned ==
    \A h \in Handlers :
        (Len(returned) >= 1 /\ Scanning(h) /\ Len(probed[h]) >= 1) =>
            probed[h][1] = (returned[Len(returned)] + 1) % n

\* C13: roundRobinCount never decreases: after any step its value is at
\* least its value before the step.
C13_CursorNonDecreasing == [][roundRobinCount' >= roundRobinCount]_vars

\* C14: with one configured backend, if it is alive every call returns it
\* after a single probe, whatever the cursor has become, and no call faults;
\* if it is down a call never returns, probes only that backend and always
\* has a next step.
C14_SingleBackend ==
    n = 1 =>
        \A h \in Handlers :
            /\ pc[h] # "panicked"
            /\ IsAlive(backend[0]) =>
                  /\ ~Scanning(h) \/ Len(probed[h]) = 0
                  /\ HasReturned(h) => (targetServer[h] = 0 /\ probed[h] = <<0>>)
            /\ ~IsAlive(backend[0]) =>
                  /\ ~HasReturned(h)
                  /\ pc[h] \in {"idle", "L74", "L75", "L76", "L76w", "L77"}
                  /\ \A j \in 1 .. Len(probed[h]) : probed[h][j] = 0
                  /\ (InFlight(h) /\ (pc[h] # "L76" \/ roundRobinCount < MaxCount)) =>
                        ENABLED Step(h)

C14_Witness ==
    /\ n = 1
    /\ IsAlive(backend[0])
    /\ roundRobinCount <= -3
    /\ \E h \in Handlers : pc[h] = "L86" /\ entry[h] <= -2 /\ probed[h] = <<0>>

\* ------------------------------------------------ startup and exit status
\* Some configured address is rejected by url.Parse.
AnyBadAddress == \E i \in DOMAIN boot.addrs : ~boot.addrs[i]

\* The address newSimpleServer is about to parse is rejected.
NextAddressBad ==
    /\ boot.built < Len(boot.addrs)
    /\ ~boot.addrs[boot.built + 1]

\* C11: a configuration error is fatal with no partial operation. When any
\* configured address fails to parse, main never gets past construction: the
\* listener is never started, no request is ever handled, construction is the
\* only thing the running process can do, and when it ends it ends with a
\* non-zero exit status. A listener that fails to start likewise ends the
\* process with a non-zero status.
C11_ConfigErrorFatal ==
    /\ AnyBadAddress =>
           /\ mainPc \in {"L99", "exited"}
           /\ listener = "notStarted"
           /\ calls = 0
           /\ \A h \in Handlers : pc[h] = "idle"
           /\ Running => ENABLED NewSimpleServer
           /\ ~Running => exitStatus # 0
    /\ listener = "failed" => (mainPc = "exited" /\ exitStatus # 0)

\* The process has exited on the second or third address, the earlier
\* servers already built.
C11_Witness ==
    /\ AnyBadAddress
    /\ boot.built >= 1
    /\ mainPc = "exited"
    /\ exitStatus = 1

\* C16: the outcome of the shutdown does not affect the exit status. A
\* process that has gone through Shutdown has exit status zero, whether every
\* request drained or the grace period expired with requests still running;
\* the exit status is non-zero only when an address failed to parse or the
\* listener failed to start.
C16_ShutdownExitsZero ==
    /\ (mainPc = "exited" /\ listener \in {"closed"}) => exitStatus = 0
    /\ (mainPc = "exited" /\ ctxDone /\ ~Idle) => exitStatus = 0
    /\ (~Running /\ exitStatus # 0) =>
           \/ listener = "failed"
           \/ mainPc = "exited" /\ listener = "notStarted" /\ NextAddressBad

\* The grace period expired with a request still running and the process
\* exited with status zero.
C16_Witness ==
    /\ mainPc = "exited"
    /\ exitStatus = 0
    /\ ctxDone
    /\ \E h \in Handlers : InFlight(h)

\* --------------------------------------------------- after the selection
\* What a handler does once getNextAvailableServer has returned to it: the
\* selection stays what it is, nothing more is selected, and a forward is the
\* handler's last step: it answers the client with whatever the chosen
\* backend gives at that moment.
AfterSelection(h) ==
    (HasReturned(h) /\ InFlight(h)) =>
        /\ targetServer'[h] = targetServer[h]
        /\ returned' = returned
        /\ forwards'[h] # forwards[h] =>
               /\ pc'[h] = "done"
               /\ response'[h] = [from   |-> targetServer[h],
                                  status |-> Serve(backend[targetServer[h]])]

\* C15: no retry after selection. A serveProxy call to which
\* getNextAvailableServer has returned forwards exactly once, to the backend
\* returned; when that backend went down after its successful probe, or the
\* forward fails, the client gets the failure (502, or the backend's own
\* status) and the handler neither selects again nor forwards again.
C15_NoRetryAfterSelection ==
    /\ [](\A h \in Handlers :
            /\ forwards[h] <= 1
            /\ forwards[h] = 1 => (pc[h] = "done" /\ HasReturned(h))
            /\ pc[h] = "done" =>
                   /\ forwards[h] = 1
                   /\ response[h].from = targetServer[h]
                   /\ probed[h][Len(probed[h])] = targetServer[h])
    /\ [][\A h \in Handlers : AfterSelection(h)]_vars

\* The chosen backend went down between its successful probe and the
\* forward: the call ended with one forward and a 502 for the client.
C15_Witness ==
    \E h \in Handlers :
        /\ pc[h] = "done"
        /\ flips = 1
        /\ mark[h] = [req |-> reqId[h], at |-> Len(probed[h])]
        /\ forwards[h] = 1
        /\ response[h].status = 502

\* C17: index in range. In a run with one caller at a time, for any list
\* size, any liveness pattern (also one that changes between calls) and any
\* number of calls, the index roundRobinCount % n that lines 74 and 77 are
\* about to use lies in 0..n-1 and no selection has faulted.
C17_IndexInRange ==
    \A h \in Handlers :
        /\ pc[h] \in {"L74", "L77"} => GoRem(roundRobinCount, n) \in 0 .. n - 1
        /\ pc[h] # "panicked"

\* --------------------------------------------------- recovery from all-down
\* The probes handler h's call has made since the last change of a backend.
ProbesSinceFlip(h) ==
    Len(probed[h]) - (IF mark[h].req = reqId[h] THEN mark[h].at ELSE 0)

\* No backend changes any more.
Settled == flips = MaxFlips

\* C19 (bound and result): once some backend is alive and stays alive, a call
\* that is still scanning has made at most n - 1 probes since then, so it
\* returns within n; what it returns is the backend of its last probe, which is
\* alive; while it scans nothing has reached the client and nothing has
\* faulted: a failed probe only moves the scan on.
C19_ProbeBound ==
    \A h \in Handlers :
        /\ (Settled /\ AnyAlive /\ Scanning(h)) => ProbesSinceFlip(h) <= n - 1
        /\ (Settled /\ AnyAlive /\ HasReturned(h)) => ProbesSinceFlip(h) <= n
        /\ (Settled /\ HasReturned(h) /\ ProbesSinceFlip(h) >= 1) =>
               /\ targetServer[h] = probed[h][Len(probed[h])]
               /\ IsAlive(backend[targetServer[h]])
        /\ Scanning(h) =>
               /\ response[h] = NoResponse
               /\ forwards[h] = 0
               /\ ~HasReturned(h)

\* C19: recovery from all-down. A call that is spinning returns, and returns
\* an alive backend within n further probes, once one backend has become
\* alive and stays alive (the counter being far enough from the bound of the
\* model for the scan to get there).
C19_Recovery ==
    /\ []C19_ProbeBound
    /\ \A h \in Handlers :
           (Scanning(h) /\ Settled /\ AnyAlive /\ roundRobinCount + n <= MaxCount)
               ~> (HasReturned(h) /\ IsAlive(backend[targetServer[h]]))

\* A call that went round the whole list with every backend down has
\* returned the backend that came up while it was spinning.
C19_Witness ==
    \E h \in Handlers :
        /\ HasReturned(h)
        /\ Settled
        /\ mark[h].req = reqId[h]
        /\ mark[h].at >= n
        /\ ProbesSinceFlip(h) >= 1
        /\ OnlyAlive(targetServer[h])

\* C18: unsynchronised concurrent selection only causes drift. With handlers
\* running getNextAvailableServer concurrently, their reads and writes of
\* roundRobinCount interleaved in any way, and at least one backend alive (no
\* backend changing), no call faults with an out-of-range access and every
\* call that returns returns a backend it probed as alive.
C18_ConcurrentOnlyDrift ==
    (AnyAlive /\ flips = 0) =>
        \A h \in Handlers :
            /\ pc[h] # "panicked"
            /\ HasReturned(h) =>
                   /\ targetServer[h] = probed[h][Len(probed[h])]
                   /\ IsAlive(backend[targetServer[h]])

====
